---- MODULE Spec2Model ----
(***************************************************************************)
(* State machine of the abacus trainer App component (src/types.ts):      *)
(* the React state of App, its event handlers and its validation effect.  *)
(* A handler runs to completion, then the validation effect runs when one *)
(* of its dependencies changed, before the next event is handled.         *)
(***************************************************************************)
EXTENDS Integers, Sequences, FiniteSets

(* ---------------- bounds of the model ---------------- *)
\* number of rods of the board (createInitialRods' count)
NumRods == 2
\* rod mutations explored per behaviour (caps stats.totalOperations)
MaxOps == 2
\* Correct events explored per behaviour (caps stats.correctAnswers)
MaxCorrect == 2
\* Correct events explored per behaviour of SpecLong
MaxCorrectLong == 11
\* challenges started per behaviour (caps the challenge ids)
MaxChallenges == 1

(* ---------------- program constants ---------------- *)
MaxHeaven == 2
MaxEarth == 5
HeavenWorth == 5
HistoryCap == 10

(* ---------------- values ---------------- *)
\* JavaScript null, for lastFormula and challenge
Null == [isNull |-> TRUE]
\* JavaScript null, for activeRodId
NoRod == -1

AppMode == {"FREE", "TRAINING", "EXAM"}

\* the feedback messages the validation effect sets
MsgCorrect == "correct"
MsgTooHigh == "too high"
MsgInProgress == "in progress"
MsgIdle == ""

RodIds == 0 .. (NumRods - 1)

RECURSIVE Pow10(_)
Pow10(k) == IF k <= 0 THEN 1 ELSE 10 * Pow10(k - 1)

(* ---------------- services/AbacusLogic ---------------- *)
createInitialRods ==
    [i \in RodIds |->
        [id |-> i, value |-> 0, activeHeavenCount |-> 0, activeEarthCount |-> 0]]

RECURSIVE SumRods(_, _)
SumRods(rs, S) ==
    IF S = {} THEN 0
    ELSE LET i == CHOOSE x \in S : TRUE
         IN rs[i].value * Pow10(NumRods - 1 - rs[i].id) + SumRods(rs, S \ {i})

calculateTotalValue(rs) == SumRods(rs, DOMAIN rs)

\* the technique a transition of one rod's value stands for
Technique(oldValue, newValue) ==
    IF (oldValue \div HeavenWorth) # (newValue \div HeavenWorth)
          /\ (IF newValue > oldValue THEN newValue - oldValue ELSE oldValue - newValue) <= HeavenWorth
    THEN "five"
    ELSE IF (oldValue \div 10) # (newValue \div 10) THEN "ten" ELSE "direct"

identifyFormula(oldValue, newValue) ==
    IF oldValue = newValue THEN Null
    ELSE LET d == IF newValue > oldValue THEN newValue - oldValue ELSE oldValue - newValue
             a == <<Technique(oldValue, newValue), IF newValue > oldValue THEN "+" ELSE "-", d>>
         IN [action |-> a, koujue |-> a, description |-> a]

\* the exact result of the operands a, b under a problem type
Result(type, a, b) ==
    CASE type = "ADD" -> a + b
      [] type = "SUB" -> a - b
      [] type = "MUL" -> a * b
      [] type = "DIV" -> a \div b

\* the operands the generator accepts: no negative difference, no remainder
Exact(type, a, b) ==
    CASE type = "ADD" -> TRUE
      [] type = "SUB" -> a >= b
      [] type = "MUL" -> TRUE
      [] type = "DIV" -> b > 0 /\ a % b = 0

\* the challenge generated from the operands <<a, b>> the random source drew
generateChallenge(type, drawn) ==
    [question |-> <<drawn[1], type, drawn[2]>>,
     targetValue |-> Result(type, drawn[1], drawn[2]),
     steps |-> drawn,
     ruleDescription |-> (type \in {"MUL", "DIV"})]

(* ---------------- state ---------------- *)
VARIABLES rods, mode, lastFormula, activeRodId, settings, challenge,
          feedbackMsg, stats, effectDeps, clock

vars == <<rods, mode, lastFormula, activeRodId, settings, challenge,
          feedbackMsg, stats, effectDeps, clock>>

currentTotal == calculateTotalValue(rods)

\* speak is re-created when settings.voiceEnabled changes
speak == settings.voiceEnabled

\* the dependency list of the validation effect
Deps == <<currentTotal, mode, challenge, speak>>

\* the validation effect has to run: a dependency changed since its last run
EffectPending == Deps # effectDeps

DefaultSettings ==
    [soundEnabled |-> TRUE, voiceEnabled |-> TRUE, showHints |-> TRUE, mentalMode |-> FALSE]

DefaultStats ==
    [totalOperations |-> 0, correctAnswers |-> 0,
     accuracyHistory |-> <<[time |-> "start", accuracy |-> <<0, 1>>]>>]

Init ==
    /\ rods = createInitialRods
    /\ mode = "FREE"
    /\ lastFormula = Null
    /\ activeRodId = NoRod
    /\ settings = DefaultSettings
    /\ challenge = Null
    /\ feedbackMsg = MsgIdle
    /\ stats = DefaultStats
    /\ effectDeps = <<0, "FREE", Null, TRUE>>
    /\ clock = 0

(* ---------------- rod mutation ---------------- *)
\* the update a bead move of the Rod component carries: both counts and the value
BeadUpdate(h, e) ==
    [activeHeavenCount |-> h, activeEarthCount |-> e, value |-> h * HeavenWorth + e]

\* the bead counts a rod mutation may request, legal or one past the legal interval
HeavenRequests == 0 .. (MaxHeaven + 1)
EarthRequests == 0 .. (MaxEarth + 1)

\* Partial<RodState>: the updates passed to handleRodChange
RodUpdates ==
    {BeadUpdate(h, e) : h \in HeavenRequests, e \in EarthRequests}
    \cup {[activeHeavenCount |-> h] : h \in HeavenRequests}
    \cup {[activeEarthCount |-> e] : e \in EarthRequests}
    \cup {[id |-> k] : k \in RodIds}

\* the legal bead moves
LegalUpdates == {BeadUpdate(h, e) : h \in 0 .. MaxHeaven, e \in 0 .. MaxEarth}

\* the legal bead moves with at most one bead of each kind: the values 0, 1, 5, 6
FewUpdates == {BeadUpdate(h, e) : h \in {0, 1}, e \in {0, 1}}

\* { ...oldRod, ...newState }
Spread(oldRod, newState) ==
    [f \in DOMAIN oldRod |-> IF f \in DOMAIN newState THEN newState[f] ELSE oldRod[f]]

\* the stored value of the rod instead of its beads
StoredValue(rod) == rod.value

BeadValue(rod) == (rod.activeHeavenCount * HeavenWorth) + rod.activeEarthCount

\* the operation counted twice
CountOperationTwice(prev) == [prev EXCEPT !.totalOperations = @ + 2]

\* setStats(prev => ({ ...prev, totalOperations: prev.totalOperations + 1 }))
CountOperation(prev) == [prev EXCEPT !.totalOperations = @ + 1]

handleRodChange(id, newState) ==
    /\ ~EffectPending
    /\ LET oldRod == rods[id]
           updatedRod == Spread(oldRod, newState)
           formula == identifyFormula(BeadValue(oldRod), BeadValue(updatedRod))
       IN /\ rods' = [rods EXCEPT ![id] = updatedRod]
          /\ lastFormula' = IF formula # Null THEN formula ELSE lastFormula
    /\ activeRodId' = id
    /\ stats' = CountOperation(stats)
    /\ UNCHANGED <<mode, settings, challenge, feedbackMsg, effectDeps, clock>>

(* ---------------- reset, stats, settings, mode ---------------- *)
\* a reset that leaves the formula display alone
handleResetKeepsFormula ==
    /\ ~EffectPending
    /\ rods' = createInitialRods
    /\ UNCHANGED lastFormula
    /\ feedbackMsg' = MsgIdle
    /\ activeRodId' = NoRod
    /\ UNCHANGED <<mode, settings, challenge, stats, effectDeps, clock>>

handleReset ==
    /\ ~EffectPending
    /\ rods' = createInitialRods
    /\ lastFormula' = Null
    /\ feedbackMsg' = MsgIdle
    /\ activeRodId' = NoRod
    /\ UNCHANGED <<mode, settings, challenge, stats, effectDeps, clock>>

clearStats ==
    /\ ~EffectPending
    /\ stats' = [totalOperations |-> 0, correctAnswers |-> 0,
                 accuracyHistory |-> <<[time |-> "reset", accuracy |-> <<0, 1>>]>>]
    /\ UNCHANGED <<rods, mode, lastFormula, activeRodId, settings, challenge,
                   feedbackMsg, effectDeps, clock>>

\* the settings the Controls toggle in the model
SettingKeys == {"voiceEnabled", "mentalMode"}

toggleSetting(key) ==
    /\ ~EffectPending
    /\ settings' = [settings EXCEPT ![key] = ~@]
    /\ UNCHANGED <<rods, mode, lastFormula, activeRodId, challenge, feedbackMsg,
                   stats, effectDeps, clock>>

setMode(m) ==
    /\ ~EffectPending
    /\ mode' = m
    /\ UNCHANGED <<rods, lastFormula, activeRodId, settings, challenge, feedbackMsg,
                   stats, effectDeps, clock>>

(* ---------------- challenge ---------------- *)
ChallengeTypes == {"ADD", "SUB", "MUL", "DIV"}

\* a challenge start without its handleReset() call
startChallengeKeepsBoard(rType, drawn) ==
    /\ ~EffectPending
    /\ LET newChallenge == generateChallenge(rType, drawn)
       IN challenge' = [id |-> clock + 1,
                        type |-> rType,
                        question |-> newChallenge.question,
                        targetValue |-> newChallenge.targetValue,
                        steps |-> newChallenge.steps,
                        currentStepIndex |-> 0,
                        ruleDescription |-> newChallenge.ruleDescription]
    /\ clock' = clock + 1
    /\ mode' = "TRAINING"
    /\ UNCHANGED <<rods, lastFormula, feedbackMsg, activeRodId, settings, stats, effectDeps>>

startChallenge(rType, drawn) ==
    /\ ~EffectPending
    /\ LET newChallenge == generateChallenge(rType, drawn)
       IN challenge' = [id |-> clock + 1,
                        type |-> rType,
                        question |-> newChallenge.question,
                        targetValue |-> newChallenge.targetValue,
                        steps |-> newChallenge.steps,
                        currentStepIndex |-> 0,
                        ruleDescription |-> newChallenge.ruleDescription]
    /\ clock' = clock + 1
    \* handleReset()
    /\ rods' = createInitialRods
    /\ lastFormula' = Null
    /\ feedbackMsg' = MsgIdle
    /\ activeRodId' = NoRod
    /\ mode' = "TRAINING"
    /\ UNCHANGED <<settings, stats, effectDeps>>

(* ---------------- validation effect ---------------- *)
\* Number.prototype.toString: the decimal digits of n >= 0, most significant first
RECURSIVE ToString(_)
ToString(n) == IF n < 10 THEN <<n>> ELSE Append(ToString(n \div 10), n % 10)

\* replace(/0$/, ''): one trailing zero only
StripOneZero(s) == IF s # <<>> /\ s[Len(s)] = 0 THEN SubSeq(s, 1, Len(s) - 1) ELSE s

\* String.prototype.replace(/0+$/, ''): the digits without their trailing zeros
RECURSIVE StripTrailingZeros(_)
StripTrailingZeros(s) ==
    IF s # <<>> /\ s[Len(s)] = 0 THEN StripTrailingZeros(SubSeq(s, 1, Len(s) - 1)) ELSE s

IsCorrect(type, total, target) ==
    IF type = "MUL" \/ type = "DIV"
    THEN total > 0 /\ StripTrailingZeros(ToString(total)) = StripTrailingZeros(ToString(target))
    ELSE total = target

\* the hints without the too-high branch
HintNoTooHigh(type, total, target) == IF total > 0 THEN MsgInProgress ELSE MsgIdle

\* the ADD/SUB hints given for every problem type
HintAllTypes(type, total, target) ==
    IF total > target THEN MsgTooHigh
    ELSE IF total > 0 THEN MsgInProgress ELSE MsgIdle

Hint(type, total, target) ==
    IF type = "ADD" \/ type = "SUB"
    THEN IF total > target THEN MsgTooHigh
         ELSE IF total > 0 THEN MsgInProgress ELSE MsgIdle
    ELSE IF total > 0 THEN MsgInProgress ELSE MsgIdle

\* newCorrect / (newCorrect + 1): the half point left out
AccuracyWhole(newCorrect) == <<100 * newCorrect, newCorrect + 1>>

\* Math.min(100, (newCorrect / (newCorrect + 0.5)) * 100), as the fraction <<num, den>>
Accuracy(newCorrect) ==
    LET num == 200 * newCorrect
        den == 2 * newCorrect + 1
    IN IF 100 * den < num THEN <<100, 1>> ELSE <<num, den>>

\* slice(-(n + 1)): one point too many
SliceOneMore(s, n) == IF Len(s) <= n + 1 THEN s ELSE SubSeq(s, Len(s) - n, Len(s))

\* Array.prototype.slice(-n)
SliceLast(s, n) == IF Len(s) <= n THEN s ELSE SubSeq(s, Len(s) - n + 1, Len(s))

RecordCorrect(prev) ==
    LET newCorrect == prev.correctAnswers + 1
        newHistory == SliceLast(Append(prev.accuracyHistory,
                                       [time |-> "now", accuracy |-> Accuracy(newCorrect)]),
                                HistoryCap)
    IN [prev EXCEPT !.correctAnswers = newCorrect, !.accuracyHistory = newHistory]

\* a guard that forgets the mode
ValidationActiveAnyMode == challenge # Null

\* the effect judges the board only in Training mode with a challenge
ValidationActive == mode = "TRAINING" /\ challenge # Null

validationEffect ==
    /\ EffectPending
    /\ effectDeps' = Deps
    /\ IF ValidationActive
       THEN IF IsCorrect(challenge.type, currentTotal, challenge.targetValue)
            THEN /\ feedbackMsg' = MsgCorrect
                 /\ stats' = RecordCorrect(stats)
            ELSE /\ feedbackMsg' = Hint(challenge.type, currentTotal, challenge.targetValue)
                 /\ UNCHANGED stats
       ELSE UNCHANGED <<feedbackMsg, stats>>
    /\ UNCHANGED <<rods, mode, lastFormula, activeRodId, settings, challenge, clock>>

(* ---------------- specifications ---------------- *)
\* the counters of a behaviour stay within the bounds
Budget == stats.correctAnswers < MaxCorrect
OpsBudget == stats.totalOperations < MaxOps
ChallengeBudget == clock < MaxChallenges

RodChange ==
    /\ Budget /\ OpsBudget
    /\ \E id \in RodIds : \E newState \in FewUpdates : handleRodChange(id, newState)
Reset == Budget /\ handleReset
ToggleSetting == Budget /\ \E key \in SettingKeys : toggleSetting(key)
SetMode == Budget /\ \E m \in AppMode : setMode(m)
\* the operands drawn for the challenges: targets 11, 0, 6 and 10
Draws ==
    {<<"ADD", <<5, 6>>>>, <<"SUB", <<5, 5>>>>, <<"MUL", <<2, 3>>>>, <<"DIV", <<60, 6>>>>}
StartChallenge ==
    /\ Budget /\ ChallengeBudget
    /\ \E d \in Draws : Exact(d[1], d[2][1], d[2][2]) /\ startChallenge(d[1], d[2])

Next ==
    \/ RodChange
    \/ Reset
    \/ ToggleSetting
    \/ SetMode
    \/ StartChallenge
    \/ validationEffect

Spec == Init /\ [][Next]_vars

(* The board alone: every update the handler accepts, legal or not. *)
BoardRodChange ==
    /\ OpsBudget
    /\ \E id \in RodIds : \E newState \in RodUpdates : handleRodChange(id, newState)

\* every key of AppSettings
AllSettingKeys == {"soundEnabled", "voiceEnabled", "showHints", "mentalMode"}
BoardToggleSetting == \E key \in AllSettingKeys : toggleSetting(key)

NextBoard ==
    \/ BoardRodChange
    \/ handleReset
    \/ BoardToggleSetting
    \/ validationEffect

SpecBoard == Init /\ [][NextBoard]_vars

(* The validator over many totals and targets: challenges and legal bead moves. *)
\* the operands drawn: targets 11, 15, 0, 6, 6, 600, 1, 0, 10, 0
ValidatorDraws ==
    {<<"ADD", <<5, 6>>>>, <<"ADD", <<7, 8>>>>, <<"SUB", <<5, 5>>>>, <<"SUB", <<9, 3>>>>,
     <<"MUL", <<2, 3>>>>, <<"MUL", <<20, 30>>>>, <<"MUL", <<1, 1>>>>, <<"MUL", <<0, 3>>>>,
     <<"DIV", <<60, 6>>>>, <<"DIV", <<0, 5>>>>}

ValidatorStartChallenge ==
    /\ Budget /\ ChallengeBudget
    /\ \E d \in ValidatorDraws : Exact(d[1], d[2][1], d[2][2]) /\ startChallenge(d[1], d[2])

\* the legal bead moves with at most two earth beads: the values 0-2, 5-7, 10-12
ValidatorUpdates == {BeadUpdate(h, e) : h \in 0 .. MaxHeaven, e \in 0 .. 2}

ValidatorRodChange ==
    /\ Budget /\ OpsBudget
    /\ \E id \in RodIds : \E newState \in ValidatorUpdates : handleRodChange(id, newState)

NextValidator ==
    \/ ValidatorRodChange
    \/ ValidatorStartChallenge
    \/ validationEffect

SpecValidator == Init /\ [][NextValidator]_vars

(* Many Correct events: few bead moves, a long budget of Correct events. *)
LongBudget == stats.correctAnswers < MaxCorrectLong

\* the bead moves to the values 0 and 1
LongUpdates == {BeadUpdate(0, 0), BeadUpdate(0, 1)}

\* the operands drawn: targets 0 and 10
LongDraws == {<<"SUB", <<5, 5>>>>, <<"DIV", <<60, 6>>>>}

LongRodChange ==
    /\ LongBudget /\ OpsBudget
    /\ \E id \in RodIds : \E newState \in LongUpdates : handleRodChange(id, newState)
LongReset == LongBudget /\ handleReset
LongToggleSetting == LongBudget /\ \E key \in SettingKeys : toggleSetting(key)
LongSetMode == LongBudget /\ \E m \in AppMode : setMode(m)
LongStartChallenge ==
    /\ LongBudget /\ ChallengeBudget
    /\ \E d \in LongDraws : Exact(d[1], d[2][1], d[2][2]) /\ startChallenge(d[1], d[2])

NextLong ==
    \/ LongRodChange
    \/ LongReset
    \/ LongToggleSetting
    \/ LongSetMode
    \/ LongStartChallenge
    \/ clearStats
    \/ validationEffect

SpecLong == Init /\ [][NextLong]_vars

(* The formula display: bead moves, updates of a single count, resets. *)
\* the bead moves of Spec and the updates of one bead count alone
FormulaUpdates ==
    FewUpdates
    \cup {[activeHeavenCount |-> h] : h \in {0, 1}}
    \cup {[activeEarthCount |-> e] : e \in {0, 1}}

FormulaRodChange ==
    /\ OpsBudget
    /\ \E id \in RodIds : \E newState \in FormulaUpdates : handleRodChange(id, newState)

NextFormula ==
    \/ FormulaRodChange
    \/ handleReset
    \/ validationEffect

SpecFormula == Init /\ [][NextFormula]_vars

(* ---------------- properties ---------------- *)
\* no effect is pending: the feedback shown is the verdict of the last validation
Quiescent == ~EffectPending

Validating(types) ==
    /\ Quiescent
    /\ mode = "TRAINING"
    /\ challenge # Null
    /\ challenge.type \in types

\* n without its factors of ten
RECURSIVE Unscaled(_)
Unscaled(n) == IF n > 0 /\ n % 10 = 0 THEN Unscaled(n \div 10) ELSE n

\* C1: for a MUL or DIV challenge the verdict is Correct iff the board total is
\* positive and equals the target up to trailing zeros of both.
C1_MulDivCorrect ==
    Validating({"MUL", "DIV"}) =>
        ((feedbackMsg = MsgCorrect) <=>
            (currentTotal > 0 /\ Unscaled(currentTotal) = Unscaled(challenge.targetValue)))

\* target 600 is Correct at board total 60
C1_Witness ==
    /\ Validating({"MUL"})
    /\ challenge.targetValue = 600
    /\ currentTotal = 60
    /\ feedbackMsg = MsgCorrect

\* C2: for an ADD or SUB challenge the verdict is Correct iff v = t, TooHigh iff
\* v > t, InProgress iff 0 < v < t and Idle iff v = 0 and v # t.
C2_AddSubVerdict ==
    Validating({"ADD", "SUB"}) =>
        LET v == currentTotal
            t == challenge.targetValue
        IN /\ (feedbackMsg = MsgCorrect) <=> (v = t)
           /\ (feedbackMsg = MsgTooHigh) <=> (v > t)
           /\ (feedbackMsg = MsgInProgress) <=> (0 < v /\ v < t)
           /\ (feedbackMsg = MsgIdle) <=> (v = 0 /\ v # t)

\* target 15 is Correct at board total 15, reached by two rod mutations (0 -> 5 -> 15)
C2_Witness ==
    /\ Validating({"ADD"})
    /\ challenge.targetValue = 15
    /\ currentTotal = 15
    /\ stats.totalOperations = 2
    /\ feedbackMsg = MsgCorrect

\* C9: for a MUL or DIV challenge the verdict is never TooHigh, and when it is not
\* Correct it is InProgress iff the board total is > 0 and Idle iff it is 0.
C9_MulDivNoTooHigh ==
    Validating({"MUL", "DIV"}) =>
        /\ feedbackMsg # MsgTooHigh
        /\ feedbackMsg # MsgCorrect =>
            /\ (feedbackMsg = MsgInProgress) <=> (currentTotal > 0)
            /\ (feedbackMsg = MsgIdle) <=> (currentTotal = 0)

\* a board total above the target of a MUL challenge is InProgress
C9_Witness ==
    /\ Validating({"MUL"})
    /\ currentTotal > challenge.targetValue
    /\ Unscaled(currentTotal) # Unscaled(challenge.targetValue)
    /\ feedbackMsg = MsgInProgress

\* the steps of the handlers, whatever their inputs, told apart by what they write
RodChangeStep ==
    /\ ~EffectPending
    /\ activeRodId' \in RodIds
    /\ UNCHANGED <<mode, settings, challenge, feedbackMsg, effectDeps, clock>>
ToggleStep == settings' # settings
SetModeStep == mode' # mode /\ clock' = clock
StartStep == challenge' # Null /\ clock' = clock + 1

\* C3: correctAnswers grows by exactly 1 when the verdict changes from not-Correct
\* to Correct, and at no other time.
C3_OncePerTransition ==
    [][stats'.correctAnswers =
          IF feedbackMsg # MsgCorrect /\ feedbackMsg' = MsgCorrect
          THEN stats.correctAnswers + 1
          ELSE stats.correctAnswers]_vars

\* C4: every rod keeps 0 <= activeHeavenCount <= 2 and 0 <= activeEarthCount <= 5;
\* a mutation requesting a count outside these intervals leaves the board unchanged.
C4_BeadsInRange ==
    \A i \in DOMAIN rods :
        /\ rods[i].activeHeavenCount \in 0 .. MaxHeaven
        /\ rods[i].activeEarthCount \in 0 .. MaxEarth

\* C5: every rod's value equals activeHeavenCount * 5 + activeEarthCount.
C5_ValueOfBeads == \A i \in DOMAIN rods : rods[i].value = BeadValue(rods[i])

\* C6: a mode change discards the active challenge, and startChallenge replaces it.
C6_ChallengeDiscarded ==
    [][/\ (mode' # mode /\ challenge # Null) => challenge' # challenge
       /\ StartStep => challenge' # challenge]_vars

\* C7: every rod mutation adds exactly 1 to totalOperations; reset, challenge start,
\* mode change, setting toggles and validation leave it unchanged.
C7_OnePerRodMutation ==
    [][/\ RodChangeStep => stats'.totalOperations = stats.totalOperations + 1
       /\ (handleReset \/ StartStep \/ SetModeStep \/ ToggleStep \/ validationEffect)
             => stats'.totalOperations = stats.totalOperations]_vars

\* two rod mutations were counted, and a later reset or challenge start kept the count
C7_Witness ==
    /\ stats.totalOperations = 2
    /\ challenge # Null
    /\ activeRodId = NoRod
    /\ Quiescent

\* C8: accuracyHistory holds at most 10 points; a Correct event appends one point
\* at the end and keeps, in their order, the last points before it.
C8_HistoryCapped ==
    /\ [](Len(stats.accuracyHistory) <= HistoryCap)
    /\ [][stats'.correctAnswers = stats.correctAnswers + 1 =>
            LET h == stats.accuracyHistory
                g == stats'.accuracyHistory
                kept == Len(g) - 1
            IN /\ Len(g) = IF Len(h) < HistoryCap THEN Len(h) + 1 ELSE HistoryCap
               /\ g[Len(g)].time = "now"
               /\ \A i \in 1 .. kept : g[i] = h[Len(h) - kept + i]]_vars

\* ten points after more than ten Correct events: the starting point was dropped
C8_Witness ==
    /\ Len(stats.accuracyHistory) = HistoryCap
    /\ stats.correctAnswers > HistoryCap
    /\ \A i \in 1 .. HistoryCap : stats.accuracyHistory[i].time = "now"

\* C10: a rod mutation leaves every other rod unchanged, keeps the length of the
\* board and keeps every rod's id.
C10_OtherRodsUntouched ==
    [][RodChangeStep =>
          /\ DOMAIN rods' = DOMAIN rods
          /\ \A j \in DOMAIN rods : rods'[j].id = rods[j].id
          /\ \E i \in DOMAIN rods : \A j \in DOMAIN rods \ {i} : rods'[j] = rods[j]]_vars

\* C11: a reset supersedes the active challenge.
C11_ResetSupersedes ==
    [][(handleReset /\ challenge # Null) => challenge' # challenge]_vars

\* C12: the accuracy point of a Correct event is 200 * c / (2 * c + 1) for the new
\* count c of correct answers: below 100 and above the point before it.
C12_AccuracyOfCount ==
    LET h == stats.accuracyHistory
        c == stats.correctAnswers
        p == h[Len(h)].accuracy
    IN c >= 1 =>
        /\ h[Len(h)].time = "now"
        /\ p[1] * (2 * c + 1) = 200 * c * p[2]
        /\ p[1] < 100 * p[2]
        /\ Len(h) >= 2 => h[Len(h) - 1].accuracy[1] * p[2] < p[1] * h[Len(h) - 1].accuracy[2]

\* three Correct events after two rod mutations: the last point is 600/7
C12_Witness ==
    /\ stats.correctAnswers = 3
    /\ stats.totalOperations = 2
    /\ stats.accuracyHistory[Len(stats.accuracyHistory)].accuracy = <<600, 7>>

\* the verdict of the board total against the active challenge, as its message
Verdict ==
    IF IsCorrect(challenge.type, currentTotal, challenge.targetValue)
    THEN MsgCorrect
    ELSE Hint(challenge.type, currentTotal, challenge.targetValue)

\* C13: once the pending effects have run, in Training mode with an active challenge
\* the feedback shown is the verdict of the current board total.
C13_FeedbackCurrent ==
    (Quiescent /\ mode = "TRAINING" /\ challenge # Null) => feedbackMsg = Verdict

\* C14: lastFormula is the formula of the most recent rod mutation since the last
\* reset that identifyFormula classified, null if there was none: a rod mutation sets
\* it to the formula of the rod's heaven * 5 + earth before and after the update
\* when there is one and keeps it otherwise, a reset clears it, nothing else writes it.
C14_LastFormulaRetained ==
    [][/\ RodChangeStep =>
            LET i == activeRodId'
                oldVal == rods[i].activeHeavenCount * HeavenWorth + rods[i].activeEarthCount
                newVal == rods'[i].activeHeavenCount * HeavenWorth + rods'[i].activeEarthCount
                formula == identifyFormula(oldVal, newVal)
            IN lastFormula' = IF formula # Null THEN formula ELSE lastFormula
       /\ handleReset => lastFormula' = Null
       /\ ~(RodChangeStep \/ handleReset) => lastFormula' = lastFormula]_vars

\* rod 0 was moved up from 0, then rod 1 was updated from 0 to 0: the formula of
\* rod 0 is still shown
C14_Witness ==
    /\ stats.totalOperations = 2
    /\ activeRodId = 1
    /\ rods[1].activeHeavenCount = 0 /\ rods[1].activeEarthCount = 0
    /\ rods[0].activeHeavenCount * HeavenWorth + rods[0].activeEarthCount > 0
    /\ lastFormula # Null
    /\ lastFormula.action[2] = "+"

AllZero(rs) ==
    \A i \in DOMAIN rs :
        rs[i].activeHeavenCount = 0 /\ rs[i].activeEarthCount = 0 /\ rs[i].value = 0

\* C15: a reset returns the board to the all-zero state with the same rods (total
\* 0), clears lastFormula, the feedback message and the active rod, and leaves
\* stats, settings and mode unchanged.
C15_ResetEffect ==
    [][handleReset =>
        /\ DOMAIN rods' = DOMAIN rods
        /\ AllZero(rods')
        /\ currentTotal' = 0
        /\ lastFormula' = Null
        /\ feedbackMsg' = MsgIdle
        /\ activeRodId' = NoRod
        /\ stats' = stats
        /\ settings' = settings
        /\ mode' = mode]_vars

\* a reset has cleared a board that bead moves had changed
C15_Witness ==
    /\ stats.totalOperations >= 1
    /\ AllZero(rods)
    /\ activeRodId = NoRod
    /\ lastFormula = Null
    /\ feedbackMsg = MsgIdle
    /\ challenge = Null

\* C16: while the mode is not Training or no challenge is active, no step changes
\* correctAnswers or accuracyHistory, a run of the validation effect changes neither
\* stats nor the feedback message, and totalOperations only grows, by one for a
\* rod mutation.
C16_InactiveOutsideTraining ==
    [][(mode # "TRAINING" \/ challenge = Null) =>
        /\ stats'.correctAnswers = stats.correctAnswers
        /\ stats'.accuracyHistory = stats.accuracyHistory
        /\ effectDeps' # effectDeps => (stats' = stats /\ feedbackMsg' = feedbackMsg)
        /\ stats'.totalOperations =
              IF RodChangeStep THEN stats.totalOperations + 1 ELSE stats.totalOperations]_vars

\* outside Training the board holds the target of the challenge still active, and
\* nothing was counted
C16_Witness ==
    /\ Quiescent
    /\ mode # "TRAINING"
    /\ challenge # Null
    /\ stats.totalOperations >= 1
    /\ IsCorrect(challenge.type, currentTotal, challenge.targetValue)
    /\ stats.correctAnswers = 0
    /\ feedbackMsg # MsgCorrect

\* C17: a challenge start leaves the mode Training, every rod zero (total 0),
\* lastFormula null and the generated challenge active with currentStepIndex 0 and
\* a type among ADD, SUB, MUL, DIV; the first verdict for it is computed against
\* total 0 and is Correct only for an ADD or SUB challenge with target 0.
C17_StartChallengeEffect ==
    [][/\ StartStep =>
            /\ mode' = "TRAINING"
            /\ AllZero(rods')
            /\ currentTotal' = 0
            /\ lastFormula' = Null
            /\ challenge'.currentStepIndex = 0
            /\ challenge'.type \in {"ADD", "SUB", "MUL", "DIV"}
            /\ LET g == generateChallenge(challenge'.type, challenge'.steps)
               IN /\ challenge'.question = g.question
                  /\ challenge'.targetValue = g.targetValue
                  /\ challenge'.ruleDescription = g.ruleDescription
       /\ (effectDeps' # effectDeps /\ effectDeps[3] # challenge /\ challenge # Null) =>
            /\ mode = "TRAINING"
            /\ currentTotal = 0
            /\ feedbackMsg' = MsgCorrect <=>
                  (challenge.type \in {"ADD", "SUB"} /\ challenge.targetValue = 0)]_vars

\* a SUB challenge with target 0 started on a used board: its first verdict was
\* Correct on the empty board
C17_Witness ==
    /\ Quiescent
    /\ challenge # Null
    /\ challenge.type = "SUB"
    /\ challenge.targetValue = 0
    /\ stats.totalOperations >= 1
    /\ AllZero(rods)
    /\ lastFormula = Null
    /\ feedbackMsg = MsgCorrect
====
